---- MODULE Spec2Model ----
(***************************************************************************)
(* Model of the rl library's environment model (StateActionTransition) and *)
(* of its tile coder (DimensionInfo, TileCode, TileCodeCorrect).           *)
(*                                                                         *)
(* rl::FLOAT values are modelled as exact rationals <<n, d>> in lowest     *)
(* terms with d > 0; every input drawn below is a dyadic rational that a   *)
(* binary float holds exactly.                                             *)
(***************************************************************************)
EXTENDS Integers, Sequences, FiniteSets

VARIABLES
  freq,       \* _stateActionTransitionFrequency : key -> FLOAT
  reward,     \* _stateActionTransitionReward    : key -> FLOAT
  greedy,     \* _greedy
  stepSize,   \* _stepSize
  lastOp,     \* the last update or query made on the model and what it returned
  hist,       \* history of the update calls (see NoHist)
  dims,       \* TileCode::_dimensionalInfos, one DimensionInfo per dimension
  offsets,    \* TileCode::_randomOffsets[tiling][dimension]
  sizeCache,  \* TileCode::_sizeCache
  w,          \* TileCode::_w, the weights
  tcOp,       \* the last query made on the tile coder and what it returned
  ctor,       \* the constructor call that built the tile coder
  twin        \* _randomOffsets of a second coder built from the same infos

satVars == <<freq, reward, greedy, stepSize, lastOp, hist>>
tcVars == <<dims, offsets, sizeCache, w, tcOp, ctor, twin>>
vars == <<satVars, tcVars>>

----------------------------------------------------------------------------
(* Bounds of the model. *)
NumStates == 2        \* the next states are 1..NumStates
MaxUpdates == 3       \* SpecUpdate: update is called at most this many times
MaxModelUpdates == 2  \* SpecSAT: update is called at most this many times
MaxTilings == 2       \* the tile coder has 1..MaxTilings tilings (NUM_TILINGS)

\* The tile coder has 1 or 2 dimensions (template parameter D); 2 is the
\* dimension of the coder of the repository's scenario, 100 its size hint.
MaxDim == 2
SizeHint == 100

----------------------------------------------------------------------------
(* Exact rational arithmetic standing for rl::FLOAT. *)
RECURSIVE Gcd(_, _)
Gcd(a, b) == IF b = 0 THEN a ELSE Gcd(b, a % b)

Abs(a) == IF a < 0 THEN -a ELSE a

R(n, d) ==
  LET g == Gcd(Abs(n), Abs(d))
      s == IF d < 0 THEN -1 ELSE 1
  IN  <<(s * n) \div g, (s * d) \div g>>

R0 == R(0, 1)
R1 == R(1, 1)

RAdd(a, b) == R(a[1] * b[2] + b[1] * a[2], a[2] * b[2])
RSub(a, b) == R(a[1] * b[2] - b[1] * a[2], a[2] * b[2])
RMul(a, b) == R(a[1] * b[1], a[2] * b[2])
RDiv(a, b) == R(a[1] * b[2], a[2] * b[1])
RLt(a, b) == a[1] * b[2] < b[1] * a[2]
RLe(a, b) == a[1] * b[2] <= b[1] * a[2]

\* a FLOAT that is an infinity or not a number
NonFinite == <<1, 0>>
IsFinite(a) == a[2] # 0

\* the conversion of a FLOAT to size_t is defined when the value without its
\* fraction is one of size_t; the fraction is dropped
Convertible(a) == IsFinite(a) /\ a[1] > -a[2]
ToSizeT(a) == IF a[1] < 0 THEN 0 ELSE a[1] \div a[2]

RECURSIVE RPow(_, _)
RPow(a, n) == IF n = 0 THEN R1 ELSE RMul(a, RPow(a, n - 1))

----------------------------------------------------------------------------
(* Inputs. *)
States == 1..NumStates
NoState == 0
Rewards == {R(-1, 1), R(2, 1)}
StepSizes == {R(1, 2), R(1, 1), R(3, 2)}
Greedys == {R0, R1}
\* draws of uniform_real_distribution(0, 1): values of [0, 1)
UDraws == {R0, R(3, 4)}

InUnit(b) == RLt(R0, b) /\ RLe(b, R1)

EmptyMap == [k \in {} |-> R0]

\* a call: its arguments (s, r), the fields it ran with (step, g), its draws
\* (u, v), the branch taken (path) and its result (res, val, err)
NoOp == [op |-> "none", s |-> NoState, r |-> R0, step |-> R0, g |-> R0,
         path |-> "none", u |-> R0, v |-> R0,
         res |-> NoState, val |-> R0, err |-> "none"]

\* run: the latest maximal run of update calls with one state and one step
\* size; pre is the frequency map before the run, fresh tells that the state
\* was no key before it
NoRun == [s |-> NoState, step |-> R0, len |-> 0, pre |-> EmptyMap, fresh |-> FALSE]

\* seen: the states passed to update; steps: the step sizes update ran with;
\* n: the number of update calls; preFreq, preReward: the maps before the
\* last update call
NoHist == [seen |-> {}, steps |-> {}, n |-> 0, run |-> NoRun,
           preFreq |-> EmptyMap, preReward |-> EmptyMap]

----------------------------------------------------------------------------
(* std::map: insert keeps an existing entry, operator[]= overwrites. *)
MapInsert(m, k, x) ==
  IF k \in DOMAIN m THEN m
  ELSE [j \in DOMAIN m \cup {k} |-> IF j = k THEN x ELSE m[j]]

MapSet(m, k, x) ==
  [j \in DOMAIN m \cup {k} |-> IF j = k THEN x ELSE m[j]]

\* the keys of a map in its iteration order (ascending)
RECURSIVE KeySeq(_)
KeySeq(ks) ==
  IF ks = {} THEN <<>>
  ELSE LET m == CHOOSE x \in ks : \A y \in ks : x <= y
       IN  <<m>> \o KeySeq(ks \ {m})

----------------------------------------------------------------------------
(* StateActionTransition::update *)

\* (variant: the step is subtracted, not the step's share of the frequency)
Lower_SubtractStep(f, k, step) == MapSet(f, k, RSub(f[k], step))

\* one pass of the loop body: freq[k] = freq[k] + stepSize * (0 - freq[k])
Lower(f, k, step) == MapSet(f, k, RAdd(f[k], RMul(step, RSub(R0, f[k]))))

\* (variant: the loop without its test, nextState is lowered as well)
RECURSIVE LowerOthers_All(_, _, _, _)
LowerOthers_All(f, keys, s, step) ==
  IF keys = <<>> THEN f
  ELSE LowerOthers_All(Lower(f, Head(keys), step), Tail(keys), s, step)

\* the loop over the frequency map: every key but nextState is lowered
RECURSIVE LowerOthers(_, _, _, _)
LowerOthers(f, keys, s, step) ==
  IF keys = <<>> THEN f
  ELSE LET k == Head(keys)
       IN  LowerOthers(IF k # s THEN Lower(f, k, step) ELSE f, Tail(keys), s, step)

\* (variant: a count, nextState is raised by the whole step each time)
RaiseNext_ByStep(f, s, step) == MapSet(f, s, RAdd(f[s], step))

\* freq[nextState] = freq[nextState] + stepSize * (1 - freq[nextState])
RaiseNext(f, s, step) == MapSet(f, s, RAdd(f[s], RMul(step, RSub(R1, f[s]))))

\* (variant: the loop over the other keys is left out)
UpdateFreq_NoLowering(f, s, step) == RaiseNext(MapInsert(f, s, R0), s, step)

UpdateFreq(f, s, step) ==
  LET ins == MapInsert(f, s, R0)
  IN  RaiseNext(LowerOthers(ins, KeySeq(DOMAIN ins), s, step), s, step)

\* (variant: only the insert, a reward already stored is kept)
UpdateReward_KeepOld(rw, s, r) == MapInsert(rw, s, r)

\* (variant: the reward of a state is stored only if the state has one already)
UpdateReward_SkipNew(rw, s, r) == IF s \in DOMAIN rw THEN MapSet(rw, s, r) ELSE rw

\* insert(nextState, reward), then reward[s] = reward[s] + 1 * (reward - reward[s])
UpdateReward(rw, s, r) ==
  LET ins == MapInsert(rw, s, r)
  IN  MapSet(ins, s, RAdd(ins[s], RMul(R1, RSub(r, ins[s]))))

\* the closing assert compares the sizes of the two maps
SizesAgree(f, rw) == Cardinality(DOMAIN f) = Cardinality(DOMAIN rw)

NextRun(run, s) ==
  IF run.len > 0 /\ run.s = s /\ run.step = stepSize
  THEN [run EXCEPT !.len = @ + 1]
  ELSE [s |-> s, step |-> stepSize, len |-> 1, pre |-> freq,
        fresh |-> s \notin DOMAIN freq]

Update(s, r) ==
  /\ freq' = UpdateFreq(freq, s, stepSize)
  /\ reward' = UpdateReward(reward, s, r)
  /\ lastOp' = [NoOp EXCEPT !.op = "update", !.s = s, !.r = r, !.step = stepSize,
                  !.err = IF SizesAgree(freq', reward') THEN "none" ELSE "sizeAssert"]
  /\ hist' = [seen |-> hist.seen \cup {s}, steps |-> hist.steps \cup {stepSize},
              n |-> hist.n + 1, run |-> NextRun(hist.run, s),
              preFreq |-> freq, preReward |-> reward]
  /\ UNCHANGED <<greedy, stepSize>>

----------------------------------------------------------------------------
(* StateActionTransition::getReward *)

\* (variant: the comparison with end() inverted)
FindState_Inverted(f, s) == s \notin DOMAIN f

FindState(f, s) == s \in DOMAIN f

GetRewardResult(f, rw, s) ==
  IF ~FindState(f, s) THEN [val |-> R0, err |-> "Missing"]
  ELSE IF s \notin DOMAIN rw THEN [val |-> R0, err |-> "out_of_range"]
  ELSE [val |-> rw[s], err |-> "none"]

GetReward(s) ==
  /\ LET g == GetRewardResult(freq, reward, s)
     IN  lastOp' = [NoOp EXCEPT !.op = "getReward", !.s = s,
                      !.val = g.val, !.err = g.err]
  /\ UNCHANGED <<freq, reward, greedy, stepSize, hist>>

----------------------------------------------------------------------------
(* StateActionTransition::getNextState *)

\* (variant: the emptiness test left out)
IsEmpty_Never(f) == FALSE

IsEmpty(f) == Cardinality(DOMAIN f) = 0

\* u > _greedy: return a random state
TakesRandom(u, g) == RLt(g, u)

RECURSIVE SumOver(_, _)
SumOver(f, keys) ==
  IF keys = <<>> THEN R0 ELSE RAdd(f[Head(keys)], SumOver(f, Tail(keys)))

FreqValSum(f) == SumOver(f, KeySeq(DOMAIN f))

\* the sum of the frequencies of the first n keys in iteration order
Prefix(f, n) == SumOver(f, SubSeq(KeySeq(DOMAIN f), 1, n))

\* draws of uniform_real_distribution(0, freqValSum): values of [0, F); the
\* points drawn are the ends and the middles of the keys' intervals
VDraws(f) ==
  LET F == FreqValSum(f)
      n == Cardinality(DOMAIN f)
      ends == {Prefix(f, i) : i \in 0..n}
      mids == {RDiv(RAdd(Prefix(f, i - 1), Prefix(f, i)), R(2, 1)) : i \in 1..n}
  IN  IF RLe(F, R0) THEN {R0}
      ELSE {v \in ends \cup mids : RLe(R0, v) /\ RLt(v, F)}

\* (variant: the comparison of the walk is >= where the code has >)
RECURSIVE Walk_Ge(_, _, _)
Walk_Ge(f, keys, v) ==
  IF keys = <<>> THEN NoState
  ELSE LET k == Head(keys)
       IN  IF RLe(v, f[k]) THEN k ELSE Walk_Ge(f, Tail(keys), RSub(v, f[k]))

\* (variant: the draw is not lowered by the frequencies passed)
RECURSIVE Walk_NoSubtract(_, _, _)
Walk_NoSubtract(f, keys, v) ==
  IF keys = <<>> THEN NoState
  ELSE LET k == Head(keys)
       IN  IF RLt(v, f[k]) THEN k ELSE Walk_NoSubtract(f, Tail(keys), v)

\* the weighted walk: NoState when the loop ends without returning
RECURSIVE Walk(_, _, _)
Walk(f, keys, v) ==
  IF keys = <<>> THEN NoState
  ELSE LET k == Head(keys)
       IN  IF RLt(v, f[k]) THEN k ELSE Walk(f, Tail(keys), RSub(v, f[k]))

GetNextStateEmpty ==
  /\ IsEmpty(freq)
  /\ lastOp' = [NoOp EXCEPT !.op = "getNextState", !.g = greedy, !.err = "Empty"]
  /\ UNCHANGED <<freq, reward, greedy, stepSize, hist>>

GetNextStateRandom ==
  /\ ~IsEmpty(freq)
  /\ \E u \in UDraws :
       /\ TakesRandom(u, greedy)
       \* std::advance(begin, _randomDevice() % size)
       /\ \E i \in 1..Cardinality(DOMAIN freq) :
            lastOp' = [NoOp EXCEPT !.op = "getNextState", !.path = "random",
                         !.g = greedy, !.u = u, !.res = KeySeq(DOMAIN freq)[i]]
  /\ UNCHANGED <<freq, reward, greedy, stepSize, hist>>

GetNextStateWeighted ==
  /\ ~IsEmpty(freq)
  /\ \E u \in UDraws :
       /\ ~TakesRandom(u, greedy)
       /\ \E v \in VDraws(freq) :
            LET k == Walk(freq, KeySeq(DOMAIN freq), v)
            IN  IF k # NoState
                THEN lastOp' = [NoOp EXCEPT !.op = "getNextState", !.path = "weighted",
                                  !.g = greedy, !.u = u, !.v = v, !.res = k]
                \* the end of the function is reached: assert(false), and without
                \* asserts a reference to anything
                ELSE \E g \in States \cup {NoState} :
                       lastOp' = [NoOp EXCEPT !.op = "getNextState", !.path = "weighted",
                                    !.g = greedy, !.u = u, !.v = v, !.res = g, !.err = "fellThrough"]
  /\ UNCHANGED <<freq, reward, greedy, stepSize, hist>>

----------------------------------------------------------------------------
(* setters *)

SetStepSize(b) ==
  /\ stepSize' = b
  /\ UNCHANGED <<freq, reward, greedy, lastOp, hist>>

SetGreedy(g) ==
  /\ greedy' = g
  /\ UNCHANGED <<freq, reward, stepSize, lastOp, hist>>

----------------------------------------------------------------------------
(* The environment model: constructed with any greedy and step size, then   *)
(* called in any order.                                                     *)

\* no tile coder is constructed beside the model
NoTcOp == [op |-> "none", x |-> <<>>, fv |-> <<>>, val |-> R0, err |-> "none"]
NoCtor == [explicit |-> FALSE, D |-> 0, K |-> 0, sizeHint |-> 0]

NoTileCode ==
  /\ dims = <<>>
  /\ offsets = <<>>
  /\ sizeCache = 0
  /\ w = <<>>
  /\ tcOp = NoTcOp
  /\ ctor = NoCtor
  /\ twin = <<>>

InitSAT ==
  /\ freq = EmptyMap
  /\ reward = EmptyMap
  /\ greedy \in Greedys
  /\ stepSize \in StepSizes
  /\ lastOp = NoOp
  /\ hist = NoHist
  /\ NoTileCode

NextSAT ==
  \/ \E s \in States, r \in Rewards :
       hist.n < MaxModelUpdates /\ Update(s, r) /\ UNCHANGED tcVars
  \/ \E s \in States : GetReward(s) /\ UNCHANGED tcVars
  \/ GetNextStateEmpty /\ UNCHANGED tcVars
  \/ GetNextStateRandom /\ UNCHANGED tcVars
  \/ GetNextStateWeighted /\ UNCHANGED tcVars
  \/ \E b \in StepSizes : SetStepSize(b) /\ UNCHANGED tcVars
  \/ \E g \in Greedys : SetGreedy(g) /\ UNCHANGED tcVars

SpecSAT == InitSAT /\ [][NextSAT]_vars

(* The same model driven by update and setStepSize alone, for longer. *)
NextUpdate ==
  \/ \E s \in States, r \in Rewards :
       hist.n < MaxUpdates /\ Update(s, r) /\ UNCHANGED tcVars
  \/ \E b \in StepSizes : SetStepSize(b) /\ UNCHANGED tcVars

SpecUpdate == InitSAT /\ [][NextUpdate]_vars

----------------------------------------------------------------------------
(* DimensionInfo *)

\* DimensionInfo(lowerRange, higherRange, gridCount, generalizationScale)
DimensionInfo(lo, hi, grid, gen) == [lo |-> lo, hi |-> hi, grid |-> grid, gen |-> gen]

GetRangeDifference(di) ==
  LET df == RSub(di.lo, di.hi) IN IF RLt(df, R0) THEN RSub(R0, df) ELSE df

\* the quotient by _gridCountIdeal = 0 is an infinity or not a number
GetOffsets(di) ==
  IF di.grid = 0 THEN NonFinite
  ELSE RDiv(GetRangeDifference(di), R(di.grid, 1))

GetGridCountReal(di) == di.grid + 1

GetGridCountIdeal(di) == di.grid

\* the dimension infos a coder is built from
DimInfos ==
  { DimensionInfo(R0, R1, 10, R1),
    DimensionInfo(R(-1, 1), R1, 1, R(2, 1)),
    DimensionInfo(R0, R(2, 1), 3, R(1, 2)) }

\* dimension infos the constructors accept as well: no grid cell, an empty
\* range
InvalidDimInfos ==
  { DimensionInfo(R0, R1, 0, R1),
    DimensionInfo(R1, R1, 2, R1) }

AnyDimInfos == InvalidDimInfos \cup {DimensionInfo(R(-1, 1), R1, 1, R1)}

\* draws of uniform_real_distribution(0, 1) made for the offsets
UOffsets == {R0, R(3, 4)}

\* hi > lo, gridIdeal >= 1, generalisation > 0
ValidDimensionInfo(di) == RLt(di.lo, di.hi) /\ di.grid >= 1 /\ RLt(R0, di.gen)

----------------------------------------------------------------------------
(* TileCode *)

NumDims == Len(dims)        \* getDimension(), template parameter D
NumTilings == Len(offsets)  \* getNumTilings(), template parameter NUM_TILINGS

\* _calculateSize: the product of the real grid counts times NUM_TILINGS
RECURSIVE GridProduct(_, _)
GridProduct(dm, n) ==
  IF n = 0 THEN 1 ELSE GridProduct(dm, n - 1) * GetGridCountReal(dm[n])

CalculateSize_OneTiling(dm, numTilings) == GridProduct(dm, Len(dm))

CalculateSize(dm, numTilings) == GridProduct(dm, Len(dm)) * numTilings

\* the constructor's offset of tiling t in dimension d for the draw u
RandomOffset(di, u) ==
  IF IsFinite(GetOffsets(di)) THEN RMul(RMul(u, GetOffsets(di)), di.gen)
  ELSE NonFinite

\* the FLOAT that paramToGridValue returns as a size_t
GridFloat(param, randomOffset, di) ==
  IF IsFinite(randomOffset) /\ GetRangeDifference(di) # R0
  THEN RDiv(RMul(RSub(RAdd(param, RMul(randomOffset, di.gen)), di.lo),
                 R(GetGridCountIdeal(di), 1)),
            GetRangeDifference(di))
  ELSE NonFinite

ParamToGridValue_OffsetUnscaled(param, tilingIndex, dimensionIndex) ==
  LET di == dims[dimensionIndex]
  IN  ToSizeT(RDiv(RMul(RSub(RAdd(param, offsets[tilingIndex][dimensionIndex]),
                             di.lo),
                        R(GetGridCountIdeal(di), 1)),
                   GetRangeDifference(di)))

ParamToGridValue(param, tilingIndex, dimensionIndex) ==
  ToSizeT(GridFloat(param, offsets[tilingIndex][dimensionIndex],
                    dims[dimensionIndex]))

\* every conversion that paramToGridValue makes for x in tiling t is defined
Defined(x, t) ==
  \A d \in 1..NumDims : Convertible(GridFloat(x[d], offsets[t][d], dims[d]))

----------------------------------------------------------------------------
(* TileCodeCorrect::getFeatureVector; tiling t of 1..NUM_TILINGS is the     *)
(* code's i = t - 1.                                                        *)

\* the inner loop from dimension d on, then hashedIndex += mult * i
RECURSIVE HashLoop(_, _, _, _, _)
HashLoop(x, t, d, hashedIndex, mult) ==
  IF d > NumDims THEN hashedIndex + mult * (t - 1)
  ELSE HashLoop(x, t, d + 1,
                hashedIndex + ParamToGridValue(x[d], t, d) * mult,
                mult * GetGridCountReal(dims[d]))

HashedIndex(x, t) == HashLoop(x, t, 1, 0, 1)

FeatureVector(x) == [t \in 1..NumTilings |-> HashedIndex(x, t)]

\* what hashedIndex may hold after a conversion with undefined behaviour:
\* an index of the weights, or a value past them
UndefinedIndices == {0, sizeCache + 1}

\* the vectors getFeatureVector(x) can return
FeatureVectors(x) ==
  IF \A t \in 1..NumTilings : Defined(x, t) THEN {FeatureVector(x)}
  ELSE {fv \in [1..NumTilings ->
                  UndefinedIndices
                    \cup {HashedIndex(x, t) : t \in {s \in 1..NumTilings : Defined(x, s)}}] :
          \A t \in 1..NumTilings : Defined(x, t) => fv[t] = HashedIndex(x, t)}

\* assert(hashedIndex <= this->_sizeCache) for every tiling
IndexAssertHolds(fv) == \A t \in DOMAIN fv : fv[t] <= sizeCache

\* the inputs: per dimension the lower bound, the middle and the upper bound
RECURSIVE XPointsUpTo(_, _)
XPointsUpTo(dm, n) ==
  IF n = 0 THEN {<<>>}
  ELSE LET di == dm[n]
       IN  {Append(x, p) : x \in XPointsUpTo(dm, n - 1),
                           p \in {di.lo, RDiv(RAdd(di.lo, di.hi), R(2, 1)), di.hi}}

XPoints(dm) == XPointsUpTo(dm, Len(dm))

\* inputs of any kind: per dimension a point under the lower bound, the
\* middle, and a point over the upper bound
RECURSIVE AnyXPointsUpTo(_, _)
AnyXPointsUpTo(dm, n) ==
  IF n = 0 THEN {<<>>}
  ELSE LET di == dm[n]
           r == GetRangeDifference(di)
       IN  {Append(x, p) : x \in AnyXPointsUpTo(dm, n - 1),
                           p \in {RSub(di.lo, RDiv(r, R(16, 1))),
                                  RDiv(RAdd(di.lo, di.hi), R(2, 1)),
                                  RAdd(di.hi, RDiv(r, R(2, 1)))}}

AnyXPoints(dm) == AnyXPointsUpTo(dm, Len(dm))

GetFeatureVector(x) ==
  /\ \E fv \in FeatureVectors(x) :
       tcOp' = [op |-> "getFeatureVector", x |-> x, fv |-> fv, val |-> R0,
                err |-> IF IndexAssertHolds(fv) THEN "none" ELSE "sizeAssert"]
  /\ UNCHANGED <<dims, offsets, sizeCache, w, ctor, twin>>

----------------------------------------------------------------------------
(* TileCode::getValueFromParameters and the weights.                       *)

\* getValueFromFeatureVector: sum += _w[f] over the first n entries of fv
RECURSIVE SumWeights(_, _)
SumWeights(fv, n) ==
  IF n = 0 THEN R0 ELSE RAdd(SumWeights(fv, n - 1), w[fv[n]])

\* what _w[f] may yield for an f that is no index of _w
UndefinedReads == {R0, R(7, 1)}

\* the outcomes of getValueFromFeatureVector(fv) after getFeatureVector
\* returned fv: the sum; or the failed assertion of getFeatureVector; or a
\* sum over a read past the end of _w
ValueOutcomes(fv) ==
  IF \A t \in DOMAIN fv : fv[t] \in DOMAIN w
  THEN {[val |-> SumWeights(fv, Len(fv)), err |-> "none"]}
  ELSE {[val |-> v, err |-> "outOfBounds"] : v \in UndefinedReads}
         \cup (IF IndexAssertHolds(fv) THEN {}
               ELSE {[val |-> R0, err |-> "sizeAssert"]})

GetValueFromParameters_Redrawn(x) ==
  /\ \E fv \in FeatureVectors(x) :
       \E out \in ValueOutcomes(fv) :
         tcOp' = [op |-> "getValueFromParameters", x |-> x, fv |-> fv,
                  val |-> out.val, err |-> out.err]
  /\ offsets' = [t \in 1..NumTilings |->
                   [d \in 1..NumDims |-> RandomOffset(dims[d], R(3, 4))]]
  /\ UNCHANGED <<dims, sizeCache, w, ctor, twin>>

GetValueFromParameters(x) ==
  /\ \E fv \in FeatureVectors(x) :
       \E out \in ValueOutcomes(fv) :
         tcOp' = [op |-> "getValueFromParameters", x |-> x, fv |-> fv,
                  val |-> out.val, err |-> out.err]
  /\ UNCHANGED <<dims, offsets, sizeCache, w, ctor, twin>>

\* the weight written: the first one
WeightIndices == {0}

Weights == {R(3, 2)}

\* at(i) = v
At(i, v) ==
  /\ w' = [w EXCEPT ![i] = v]
  /\ UNCHANGED <<dims, offsets, sizeCache, tcOp, ctor, twin>>

----------------------------------------------------------------------------
(* Coders TileCodeCorrect<D, NUM_TILINGS> constructed from dimension infos, *)
(* with or without a size hint, the offsets drawn by the constructor.      *)

\* the draw that a second coder's engine makes for tiling t and dimension
\* d, u being the draws of the first coder's engine: both engines are
\* default-constructed
TwinDraw(u, t, d) == u[t][d]

\* TileCode(dimensionalInfos, sizeHint) with the draws u of its engine
Constructed(dm, K, u, explicit, size) ==
  /\ dims = dm
  /\ sizeCache = size
  /\ w = [i \in 0..(size - 1) |-> R0]
  /\ offsets = [t \in 1..K |-> [d \in 1..Len(dm) |-> RandomOffset(dm[d], u[t][d])]]
  /\ twin = [t \in 1..K |->
               [d \in 1..Len(dm) |-> RandomOffset(dm[d], TwinDraw(u, t, d))]]
  /\ ctor = [explicit |-> explicit, D |-> Len(dm), K |-> K, sizeHint |-> size]

\* TileCode(dimensionalInfos) passes _calculateSize(dimensionalInfos) on
InitCoder(infos, explicits) ==
  /\ \E D \in 1..MaxDim, K \in 1..MaxTilings, explicit \in explicits :
       \E dm \in [1..D -> infos], u \in [1..K -> [1..D -> UOffsets]] :
         Constructed(dm, K, u, explicit,
                     IF explicit THEN SizeHint ELSE CalculateSize(dm, K))
  /\ tcOp = NoTcOp
  /\ freq = EmptyMap
  /\ reward = EmptyMap
  /\ greedy = R1
  /\ stepSize = R1
  /\ lastOp = NoOp
  /\ hist = NoHist

\* coders of either constructor, queried for feature vectors
InitTC == InitCoder(DimInfos, BOOLEAN)

NextTC ==
  \E x \in XPoints(dims) : GetFeatureVector(x) /\ UNCHANGED satVars

SpecTC == InitTC /\ [][NextTC]_vars

\* coders whose weights are written and read
InitTCW == InitCoder(DimInfos, {FALSE})

NextTCW ==
  \/ \E x \in XPoints(dims) : GetValueFromParameters(x) /\ UNCHANGED satVars
  \/ \E i \in WeightIndices, v \in Weights : At(i, v) /\ UNCHANGED satVars

SpecTCW == InitTCW /\ [][NextTCW]_vars

\* coders of any dimension infos, queried with any inputs
InitTCAny == InitCoder(AnyDimInfos, {FALSE})

NextTCAny ==
  \E x \in AnyXPoints(dims) : GetFeatureVector(x) /\ UNCHANGED satVars

SpecTCAny == InitTCAny /\ [][NextTCAny]_vars

----------------------------------------------------------------------------
(* Claims about StateActionTransition.                                     *)

\* C1: in every state reached by update calls the frequency map and the
\* reward map have the same keys, and the size assertion closing update has
\* never failed.
C1_KeySetsEqual ==
  /\ DOMAIN freq = DOMAIN reward
  /\ lastOp.err # "sizeAssert"

C1_Witness ==
  /\ hist.n >= 2
  /\ Cardinality(DOMAIN freq) >= 2
  /\ lastOp.op = "update"

\* C2: update(s', r) inserts s' with frequency 0 if absent, then gives every
\* key k # s' the frequency f + step * (0 - f) and s' the frequency
\* f + step * (1 - f), each key once; no key is removed.
C2_UpdateFrequencies ==
  lastOp.op = "update" =>
    LET s == lastOp.s
        b == lastOp.step
        old == hist.preFreq
        before(k) == IF k \in DOMAIN old THEN old[k] ELSE R0
    IN  /\ DOMAIN freq = DOMAIN old \cup {s}
        /\ \A k \in DOMAIN freq :
             freq[k] = IF k = s
                       THEN RAdd(before(k), RMul(b, RSub(R1, before(k))))
                       ELSE RAdd(old[k], RMul(b, RSub(R0, old[k])))

C2_Witness ==
  /\ lastOp.op = "update"
  /\ lastOp.s \in DOMAIN hist.preFreq
  /\ \E k \in DOMAIN hist.preFreq : k # lastOp.s /\ hist.preFreq[k] # R0
  /\ freq # hist.preFreq

\* C3: after T update calls in a row with one state s* and one step size b,
\* s* being no key before them, freq[s*] = 1 - (1-b)^T and every other key
\* holds (1-b)^T times the frequency it had before the T calls.
C3_ModelLaw ==
  LET rn == hist.run
  IN  (rn.len > 0 /\ rn.fresh) =>
        LET d == RPow(RSub(R1, rn.step), rn.len)
        IN  /\ freq[rn.s] = RSub(R1, d)
            /\ \A k \in DOMAIN rn.pre : freq[k] = RMul(d, rn.pre[k])

C3_Witness ==
  /\ hist.run.len >= 2
  /\ hist.run.fresh
  /\ hist.run.step = R(1, 2)
  /\ \E k \in DOMAIN hist.run.pre : hist.run.pre[k] # R0

\* C4: after update(s', r), getReward(s') returns exactly r, whether s' was
\* a key before or not, and the reward stored for every other key is the one
\* stored before the call.
C4_RewardOverwritten ==
  lastOp.op = "update" =>
    /\ GetRewardResult(freq, reward, lastOp.s) = [val |-> lastOp.r, err |-> "none"]
    /\ \A k \in DOMAIN hist.preReward \ {lastOp.s} :
         k \in DOMAIN reward /\ reward[k] = hist.preReward[k]

C4_Witness ==
  /\ lastOp.op = "update"
  /\ lastOp.s \in DOMAIN hist.preReward
  /\ hist.preReward[lastOp.s] # lastOp.r
  /\ DOMAIN hist.preReward # {lastOp.s}

\* C5: getNextState on a model without keys fails with the Empty error,
\* returns no state and changes nothing of the model, whatever greedy is.
C5_EmptyFails ==
  [][(lastOp' # lastOp /\ lastOp'.op = "getNextState" /\ DOMAIN freq = {}) =>
       /\ lastOp'.err = "Empty"
       /\ lastOp'.res = NoState
       /\ UNCHANGED <<freq, reward, greedy, stepSize>>]_vars

C5_Witness ==
  /\ lastOp.op = "getNextState"
  /\ lastOp.err = "Empty"
  /\ lastOp.g = R0
  /\ DOMAIN freq = {}

\* C6: getReward(s) fails with the Missing error exactly if s was never
\* passed to update; for a state passed to update it returns without error.
C6_MissingIffNeverUpdated ==
  lastOp.op = "getReward" =>
    /\ lastOp.err = "Missing" <=> lastOp.s \notin hist.seen
    /\ lastOp.s \in hist.seen => lastOp.err = "none"

C6_Witness ==
  /\ lastOp.op = "getReward"
  /\ lastOp.err = "Missing"
  /\ hist.seen # {}

\* C7: if every update ran with a step size in (0, 1], every frequency is
\* at least 0 and at most 1.
C7_FrequenciesInUnit ==
  (\A b \in hist.steps : InUnit(b)) =>
    \A k \in DOMAIN freq : RLe(R0, freq[k]) /\ RLe(freq[k], R1)

C7_Witness ==
  /\ hist.n >= 3
  /\ \A b \in hist.steps : InUnit(b)
  /\ \A k \in States : k \in DOMAIN freq /\ RLt(R0, freq[k]) /\ RLt(freq[k], R1)

\* C8: with greedy = 1 on a model with keys and a draw v of [0, F), F the
\* sum of the frequencies, getNextState returns the first key in iteration
\* order whose running sum of frequencies exceeds v; the key returned has a
\* frequency other than 0, and it is s* if update was called with s* only.
C8_WeightedWalk ==
  (/\ lastOp.op = "getNextState"
   /\ lastOp.g = R1
   /\ DOMAIN freq # {}
   /\ RLe(R0, lastOp.v) /\ RLt(lastOp.v, FreqValSum(freq))) =>
    LET keys == KeySeq(DOMAIN freq)
    IN  /\ lastOp.err = "none"
        /\ \E i \in 1..Len(keys) :
             /\ lastOp.res = keys[i]
             /\ RLt(lastOp.v, Prefix(freq, i))
             /\ \A j \in 1..(i - 1) : RLe(Prefix(freq, j), lastOp.v)
        /\ lastOp.res \in DOMAIN freq /\ freq[lastOp.res] # R0
        /\ \A s \in States : hist.seen = {s} => lastOp.res = s

C8_Witness ==
  /\ lastOp.op = "getNextState"
  /\ lastOp.g = R1
  /\ lastOp.err = "none"
  /\ Cardinality(DOMAIN freq) >= 2
  /\ lastOp.res # KeySeq(DOMAIN freq)[1]
  /\ freq[KeySeq(DOMAIN freq)[1]] = R0

\* C18: after T >= 1 update calls on a fresh model, all with one step size b
\* of (0, 1] and with any next states, the frequencies sum to 1 - (1-b)^T;
\* the sum is above 0 and at most 1.
C18_FrequencySum ==
  (/\ hist.n >= 1
   /\ \E b \in hist.steps : hist.steps = {b} /\ InUnit(b)) =>
    LET b == CHOOSE c \in hist.steps : TRUE
        part[k \in 0..NumStates] ==
          IF k = 0 THEN R0
          ELSE RAdd(part[k - 1], IF k \in DOMAIN freq THEN freq[k] ELSE R0)
        F == part[NumStates]
    IN  /\ F = RSub(R1, RPow(RSub(R1, b), hist.n))
        /\ F = FreqValSum(freq)
        /\ RLt(R0, F) /\ RLe(F, R1)

C18_Witness ==
  /\ hist.n = MaxUpdates
  /\ hist.steps = {R(1, 2)}
  /\ Cardinality(DOMAIN freq) >= 2
  /\ FreqValSum(freq) = RSub(R1, RPow(R(1, 2), MaxUpdates))

\* C19: on a model updated at least once, every time with a step size of
\* (0, 1], getNextState with a greedy of [0, 1], a draw u of [0, 1] and a
\* draw v of [0, F) returns a key of both maps, a state passed to update,
\* without reaching the end of the weighted walk; getReward of the state
\* returned does not fail.
C19_NextStateIsKey ==
  (/\ lastOp.op = "getNextState"
   /\ hist.n >= 1
   /\ \A b \in hist.steps : InUnit(b)
   /\ RLe(R0, lastOp.g) /\ RLe(lastOp.g, R1)
   /\ RLe(R0, lastOp.u) /\ RLe(lastOp.u, R1)
   /\ lastOp.path = "weighted" =>
        (RLe(R0, lastOp.v) /\ RLt(lastOp.v, FreqValSum(freq)))) =>
    /\ lastOp.err = "none"
    /\ lastOp.res \in DOMAIN freq \cap DOMAIN reward
    /\ lastOp.res \in hist.seen
    /\ GetRewardResult(freq, reward, lastOp.res).err = "none"

C19_Witness ==
  /\ lastOp.op = "getNextState"
  /\ lastOp.path = "weighted"
  /\ lastOp.err = "none"
  /\ hist.n >= 2
  /\ \A b \in hist.steps : InUnit(b)
  /\ Cardinality(DOMAIN freq) >= 2
  /\ lastOp.res = KeySeq(DOMAIN freq)[2]
  /\ RLt(R0, lastOp.v)

----------------------------------------------------------------------------
(* Claims about TileCodeCorrect.                                           *)

\* the input lies in [lo_d, hi_d] in every dimension
InDomain(x) ==
  \A d \in 1..NumDims : RLe(dims[d].lo, x[d]) /\ RLe(x[d], dims[d].hi)

\* the grid coordinates of x in tiling t, with the tiling
GridTuple(x, t) == <<[d \in 1..NumDims |-> ParamToGridValue(x[d], t, d)], t>>

\* C9: for a coder built from valid dimension infos, with no size hint under
\* the size of its grids, and an input inside the bounds of every dimension,
\* getFeatureVector returns NUM_TILINGS indices, each at least 0 and less
\* than getSize().
C9_IndicesInRange ==
  (/\ tcOp.op = "getFeatureVector"
   /\ \A d \in 1..NumDims : ValidDimensionInfo(dims[d])
   /\ sizeCache >= CalculateSize(dims, NumTilings)
   /\ InDomain(tcOp.x)) =>
    /\ Len(tcOp.fv) = NumTilings
    /\ \A t \in 1..NumTilings : 0 <= tcOp.fv[t] /\ tcOp.fv[t] < sizeCache

\* C10: two (input, tiling) pairs whose grid coordinates or tilings differ
\* get different indices; so the indices of one feature vector are pairwise
\* distinct.
C10_CollisionFree ==
  tcOp.op = "getFeatureVector" =>
    \A t1 \in 1..NumTilings, t2 \in 1..NumTilings, x2 \in XPoints(dims) :
      GridTuple(tcOp.x, t1) # GridTuple(x2, t2) =>
        tcOp.fv[t1] # FeatureVector(x2)[t2]

\* Where the two statements above do hold: every generalisation scale of the
\* coder is at most 1, so that no grid coordinate exceeds gridIdeal.
ScalesAtMostOne == \A d \in 1..NumDims : RLe(dims[d].gen, R1)

C9_InRangeForSmallScales == ScalesAtMostOne => C9_IndicesInRange

C10_CollisionFreeForSmallScales == ScalesAtMostOne => C10_CollisionFree

\* C11: for a coder built from valid dimension infos and an input inside the
\* bounds of every dimension, the grid coordinate that paramToGridValue
\* returns is at most gridIdeal in every tiling and dimension; at the lower
\* bound with a zero offset it is 0, at the upper bound it is gridIdeal.
C11_GridValueAtMostIdeal ==
  (/\ tcOp.op = "getFeatureVector"
   /\ \A d \in 1..NumDims : ValidDimensionInfo(dims[d])
   /\ InDomain(tcOp.x)) =>
    \A t \in 1..NumTilings, d \in 1..NumDims :
      LET g == ParamToGridValue(tcOp.x[d], t, d)
      IN  /\ g <= GetGridCountIdeal(dims[d])
          /\ (tcOp.x[d] = dims[d].lo /\ offsets[t][d] = R0) => g = 0
          /\ tcOp.x[d] = dims[d].hi => g = GetGridCountIdeal(dims[d])

C11_AtMostIdealForSmallScales == ScalesAtMostOne => C11_GridValueAtMostIdeal

\* C12: getFeatureVector called with a coordinate outside the bounds of its
\* dimension raises OutOfDomain and returns no feature vector.
C12_OutOfDomainRaises ==
  (tcOp.op = "getFeatureVector" /\ ~InDomain(tcOp.x)) =>
    /\ tcOp.err = "OutOfDomain"
    /\ tcOp.fv = <<>>

\* C13: no coder exists whose dimension info has gridIdeal = 0 or hi <= lo,
\* so that no offset is the result of a division by zero and
\* paramToGridValue divides by no zero range.
C13_InvalidConfigRejected ==
  \A d \in 1..NumDims :
    /\ GetGridCountIdeal(dims[d]) # 0
    /\ RLt(dims[d].lo, dims[d].hi)
    /\ \A t \in 1..NumTilings : IsFinite(offsets[t][d])
    /\ GetRangeDifference(dims[d]) # R0

C15_CoderSize ==
  /\ ctor.explicit => (sizeCache = SizeHint /\ NumDims = ctor.D)
  /\ ~ctor.explicit =>
       LET prod[n \in 0..NumDims] ==
             IF n = 0 THEN 1 ELSE prod[n - 1] * (dims[n].grid + 1)
       IN  sizeCache = ctor.K * prod[NumDims] /\ NumDims = ctor.D
  /\ DOMAIN w = 0..(sizeCache - 1)
  /\ \A i \in DOMAIN w : w[i] = R0

C15_Witness ==
  /\ ctor.explicit
  /\ NumDims = 2
  /\ NumTilings = 2
  /\ sizeCache = SizeHint
  /\ Cardinality(DOMAIN w) = SizeHint
  /\ tcOp.op = "getFeatureVector"

\* C16: for an input inside the bounds, getFeatureVector gives tiling t (from
\* 0) the index sum over d of g(d) * product over d' < d of gridReal(d'),
\* plus t * product over d of gridReal(d), g(d) being the floor of
\* ((x_d + offsets[t][d] * generalisation_d) - lo_d) * gridIdeal_d / range_d;
\* with one dimension 0..1 of 10 cells, one tiling and a zero offset the
\* index is floor(10 * x).
C16_IndexFormula ==
  (tcOp.op = "getFeatureVector" /\ InDomain(tcOp.x)) =>
    /\ \A t \in 1..NumTilings :
         LET x == tcOp.x
             gridReal(d) == dims[d].grid + 1
             g(d) == LET a == RDiv(RMul(RSub(RAdd(x[d], RMul(offsets[t][d], dims[d].gen)),
                                             dims[d].lo),
                                        R(dims[d].grid, 1)),
                                   RSub(dims[d].hi, dims[d].lo))
                     IN  a[1] \div a[2]
             prod[n \in 0..NumDims] == IF n = 0 THEN 1 ELSE prod[n - 1] * gridReal(n)
             sum[n \in 0..NumDims] == IF n = 0 THEN 0 ELSE sum[n - 1] + g(n) * prod[n - 1]
         IN  tcOp.fv[t] = sum[NumDims] + (t - 1) * prod[NumDims]
    /\ (/\ NumDims = 1 /\ NumTilings = 1
        /\ dims[1] = DimensionInfo(R0, R1, 10, R1)
        /\ offsets[1][1] = R0) =>
         tcOp.fv[1] = (10 * tcOp.x[1][1]) \div tcOp.x[1][2]

C16_Witness ==
  /\ tcOp.op = "getFeatureVector"
  /\ InDomain(tcOp.x)
  /\ NumDims = 2
  /\ NumTilings = 2
  /\ \A d \in 1..NumDims : offsets[2][d] # R0 /\ dims[d].gen # R1
  /\ tcOp.fv[1] > 0
  /\ tcOp.fv[2] > tcOp.fv[1]

\* C17: getValueFromParameters(x) returns the sum of the weights at the
\* indices of getFeatureVector(x), an index counted as often as it occurs,
\* and leaves the weights as they were.
C17_ValueIsWeightSum ==
  [][(tcOp' # tcOp /\ tcOp'.op = "getValueFromParameters") =>
       /\ w' = w
       /\ \A t \in DOMAIN tcOp'.fv : tcOp'.fv[t] \in DOMAIN w
       /\ LET fv == tcOp'.fv
              sum[n \in 0..Len(fv)] ==
                IF n = 0 THEN R0 ELSE RAdd(sum[n - 1], w[fv[n]])
          IN  tcOp'.val = sum[Len(fv)]]_vars

\* Where the statement above does hold: every index of the feature vector
\* is an index of the weights.
C17_WeightSumForIndicesInRange ==
  [][(/\ tcOp' # tcOp
      /\ tcOp'.op = "getValueFromParameters"
      /\ \A t \in DOMAIN tcOp'.fv : tcOp'.fv[t] \in DOMAIN w) =>
       /\ w' = w
       /\ tcOp'.err = "none"
       /\ LET fv == tcOp'.fv
              sum[n \in 0..Len(fv)] ==
                IF n = 0 THEN R0 ELSE RAdd(sum[n - 1], w[fv[n]])
          IN  tcOp'.val = sum[Len(fv)]]_vars

====
